---- MODULE Spec2Model ----
(***************************************************************************)
(* Model of bot.py of GameDealsBuddy: the deal cache (load_cache,          *)
(* save_cache, reset_cache), the two storefront fetchers, the summarizer,  *)
(* the announcer and the polling loop of main().                           *)
(*                                                                         *)
(* JSON values are tagged records: JInt(n), JStr(s), Null.  A JSON object  *)
(* is a function from the keys it holds to JSON values, so that            *)
(* dict.get(key, default) is modelled with its default.                    *)
(***************************************************************************)
EXTENDS Integers, Sequences, FiniteSets, TLC

VARIABLES
    pc,                     \* position of the process in main()/run_once()
    POSTED_DEALS,           \* in-memory cache: store -> set of id strings
    file,                   \* content of POSTED_DEALS_FILE
    deals,                  \* rest of the list the current for-loop iterates
    pending,                \* outcome of the post_to_discord call the loop
                            \* body has made for Head(deals), before the add
    elapsed,                \* time.time() - last_reset, in hours
    DISCORD_WEBHOOK_URL,    \* TRUE iff the variable is set
    CACHE_RESET_HOURS,
    \* ---- history (observations of the run, never read by the program)
    posted,                 \* (store, id) post_to_discord was called for
                            \* since the cache was last loaded or reset
    reposted,               \* those it was called for more than once
    attempted,              \* (store, id) post_to_discord was called for
                            \* in this cycle
    webhooked,              \* (store, id) requests.post was called for in
                            \* this cycle
    calls,                  \* number of requests.post calls in this cycle
    added,                  \* (store, id) added to the cache in this cycle
    fetchFailed,            \* store -> the fetch of this cycle hit its
                            \* except branch
    fetched,                \* store -> id strings of the list the fetcher
                            \* returned in this cycle
    cycleStart,             \* POSTED_DEALS when the cycle began
    saves,                  \* save_cache calls made by run_once this cycle
    saveOK,                 \* the last save_cache call wrote the file
    didReset,               \* the cache was reset (at start-up, or by
                            \* main() after the cycle) since the last fetch
    preReset,               \* POSTED_DEALS just before the reset that
                            \* preceded this cycle
    \* ---- the pure functions, checked on their own
    fin,                    \* input of the function under check
    fout,                   \* its result
    fpc                     \* "in" before the call, "out" after it

botVars == <<pc, POSTED_DEALS, file, deals, pending, elapsed,
             DISCORD_WEBHOOK_URL,
             CACHE_RESET_HOURS>>
histVars == <<posted, reposted, attempted, webhooked, calls, added,
              fetchFailed, fetched, cycleStart, saves, saveOK,
              didReset, preReset>>
fnVars == <<fin, fout, fpc>>
vars == <<botVars, histVars, fnVars>>

-----------------------------------------------------------------------------
(* Bounds of the model *)

\* longest item list of a storefront response in the polling loop
MaxDeals == 2
\* longest item list given to a fetcher checked on its own
MaxItems == 2
\* largest Epic price (in cents) given to fetch_epic_deals on its own
MaxPrice == 4
\* longest text given to summarize_text
MaxTextLen == 8
\* cap of the clock: hours since the last reset
MaxElapsed == 8

-----------------------------------------------------------------------------
(* JSON values and Python helpers *)

JInt(n) == [t |-> "int", v |-> n]
JStr(s) == [t |-> "str", v |-> s]
Null == [t |-> "null", v |-> 0]

\* dict.get(key, default)
get(d, k, default) == IF k \in DOMAIN d THEN d[k] ELSE default

\* str(x) of a JSON value: str(42) = "42", str("42") = "42", str(None) = "None"
py_str(j) ==
    IF j.t = "null" THEN "None"
    ELSE IF j.t = "int" THEN ToString(j.v)
    ELSE j.v

\* truth value of a JSON value in a condition
truthy(j) ==
    IF j.t = "int" THEN j.v # 0
    ELSE IF j.t = "str" THEN j.v # ""
    ELSE FALSE

\* x == 0 in Python: None == 0 and "0" == 0 are False
eq_zero(j) == j.t = "int" /\ j.v = 0

\* p / 100.0, kept exact: <<whole units, hundredths>>
div100(p) == <<p \div 100, p % 100>>

-----------------------------------------------------------------------------
(* fetch_steam_deals *)

STEAM_MIN_DISCOUNT == 50

\* the statements of the loop body raise (TypeError) for this item
steam_item_raises(item) ==
    LET d == get(item, "discount_percent", JInt(0)) IN
    \/ d.t # "int"
    \/ /\ d.v >= STEAM_MIN_DISCOUNT
       /\ get(item, "final_price", JInt(0)).t # "int"

\* The strict variant of the threshold test (> where the code has >=).
steam_eligible_gt(item) ==
    \/ get(item, "discount_percent", JInt(0)).v > STEAM_MIN_DISCOUNT
    \/ eq_zero(get(item, "final_price", JInt(1)))

\* the condition of line 113, for an item that does not raise
steam_eligible(item) ==
    \/ get(item, "discount_percent", JInt(0)).v >= STEAM_MIN_DISCOUNT
    \/ eq_zero(get(item, "final_price", JInt(1)))

steam_deal(item) ==
    [store |-> "Steam",
     id |-> get(item, "id", Null),
     discount_percent |-> get(item, "discount_percent", Null),
     final_price |-> div100(get(item, "final_price", JInt(0)).v)]

\* the for-loop inside the try: an exception leaves the loop, and the
\* function returns the list as it stands
RECURSIVE steam_loop(_, _)
steam_loop(items, acc) ==
    IF items = <<>> THEN acc
    ELSE IF steam_item_raises(Head(items)) THEN acc
    ELSE steam_loop(Tail(items),
                    IF steam_eligible(Head(items))
                    THEN Append(acc, steam_deal(Head(items)))
                    ELSE acc)

\* resp.status: "ok", or the way requests.get / raise_for_status /
\* resp.json() / data.get(...) failed before the loop
fetch_steam_deals(resp) ==
    IF resp.status # "ok" THEN <<>> ELSE steam_loop(resp.items, <<>>)

steam_fetch_failed(resp) ==
    \/ resp.status # "ok"
    \/ \E i \in 1..Len(resp.items) : steam_item_raises(resp.items[i])

-----------------------------------------------------------------------------
(* fetch_epic_deals.  An element holds the keys of el['price']['totalPrice'] *)
(* (originalPrice, discountPrice) beside its own (id, description).         *)

epic_original(el) == get(el, "originalPrice", JInt(0))
epic_discount(el) == get(el, "discountPrice", epic_original(el))

\* (discount / original) <= 0.5 for integers, original # 0
ratio_le_half(d, o) == IF o > 0 THEN 2 * d <= o ELSE 2 * d >= o

\* discount / original raises TypeError
epic_item_raises(el) ==
    /\ truthy(epic_original(el))
    /\ \/ epic_original(el).t # "int"
       \/ epic_discount(el).t # "int"

\* The strict variant of the ratio test (< 0.5 where the code has <= 0.5).
epic_eligible_strict(el) ==
    \/ /\ truthy(epic_original(el))
       /\ ~ratio_le_half(epic_original(el).v - epic_discount(el).v,
                         epic_original(el).v)
    \/ eq_zero(epic_discount(el))

\* the condition of line 169, for an element that does not raise
epic_eligible(el) ==
    \/ /\ truthy(epic_original(el))
       /\ ratio_le_half(epic_discount(el).v, epic_original(el).v)
    \/ eq_zero(epic_discount(el))

\* a // b of Python integers (floor), b # 0
py_floordiv(a, b) == IF b > 0 THEN a \div b ELSE (0 - a) \div (0 - b)

\* int(100 - (discount * 100 // original)) if original else 100
epic_discount_percent(d, o) ==
    IF o # 0 THEN 100 - py_floordiv(d * 100, o) ELSE 100

epic_deal(el) ==
    [store |-> "Epic",
     id |-> get(el, "id", Null),
     discount_percent |->
        epic_discount_percent(epic_discount(el).v,
                              IF truthy(epic_original(el))
                              THEN epic_original(el).v ELSE 0),
     final_price |-> div100(epic_discount(el).v),
     description |-> get(el, "description", JStr(""))]

RECURSIVE epic_loop(_, _)
epic_loop(items, acc) ==
    IF items = <<>> THEN acc
    ELSE IF epic_item_raises(Head(items)) THEN acc
    ELSE epic_loop(Tail(items),
                   IF epic_eligible(Head(items))
                   THEN Append(acc, epic_deal(Head(items)))
                   ELSE acc)

fetch_epic_deals(resp) ==
    IF resp.status # "ok" THEN <<>> ELSE epic_loop(resp.items, <<>>)

epic_fetch_failed(resp) ==
    \/ resp.status # "ok"
    \/ \E i \in 1..Len(resp.items) : epic_item_raises(resp.items[i])

-----------------------------------------------------------------------------
(* summarize_text, local fallback.  A text is a sequence of characters. *)

RECURSIVE py_replace_nl(_)
py_replace_nl(text) ==
    IF text = <<>> THEN <<>>
    ELSE <<IF Head(text) = "\n" THEN " " ELSE Head(text)>>
         \o py_replace_nl(Tail(text))

\* text.split('.'): the segments between the periods, empty ones kept
RECURSIVE py_split(_, _)
py_split(text, cur) ==
    IF text = <<>> THEN <<cur>>
    ELSE IF Head(text) = "." THEN <<cur>> \o py_split(Tail(text), <<>>)
    ELSE py_split(Tail(text), Append(cur, Head(text)))

\* '. '.join(parts)
RECURSIVE py_join(_)
py_join(parts) ==
    IF parts = <<>> THEN <<>>
    ELSE IF Len(parts) = 1 THEN parts[1]
    ELSE parts[1] \o <<".", " ">> \o py_join(Tail(parts))

RECURSIVE py_lstrip(_)
py_lstrip(text) ==
    IF text # <<>> /\ Head(text) \in {" ", "\n"}
    THEN py_lstrip(Tail(text)) ELSE text

RECURSIVE py_rstrip(_)
py_rstrip(text) ==
    IF text # <<>> /\ text[Len(text)] \in {" ", "\n"}
    THEN py_rstrip(SubSeq(text, 1, Len(text) - 1)) ELSE text

py_strip(text) == py_rstrip(py_lstrip(text))

\* sentences[:2]
first_two(parts) == SubSeq(parts, 1, IF Len(parts) < 2 THEN Len(parts) ELSE 2)

\* lines 88-89
summarize_fallback(text) ==
    py_strip(py_join(first_two(py_split(py_replace_nl(text), <<>>))))
    \o <<".">>

-----------------------------------------------------------------------------
(* The deal cache *)

Stores == {"Steam", "Epic"}
EmptyCache == [Steam |-> {}, Epic |-> {}]

\* POSTED_DEALS_FILE: absent, unreadable or not JSON, or a JSON object
NoFile == [kind |-> "missing"]
BadFile == [kind |-> "corrupt"]
JsonFile(data) == [kind |-> "json", data |-> data]

Range(seq) == {seq[i] : i \in 1..Len(seq)}

load_cache_one_key(f) ==
    IF f.kind # "json" THEN EmptyCache
    ELSE [Steam |-> {py_str(x) : x \in Range(get(f.data, "Steam", <<>>))},
          Epic |-> {py_str(x) : x \in Range(get(f.data, "Steam", <<>>))}]

\* lines 23-35: a missing file and a failure to read or parse both give
\* two empty sets
load_cache(f) ==
    IF f.kind # "json" THEN EmptyCache
    ELSE [Steam |-> {py_str(x) : x \in Range(get(f.data, "Steam", <<>>))},
          Epic |-> {py_str(x) : x \in Range(get(f.data, "Epic", <<>>))}]

\* list(a_set): the elements in some order
Lists(S) ==
    {seq \in [1..Cardinality(S) -> {JStr(x) : x \in S}] : Range(seq) = {JStr(x) : x \in S}}

SaveOutcomes == {"ok", "open_failed", "write_failed"}

\* lines 38-43: the files save_cache can leave.  open() failing leaves the
\* old file, a failing write leaves a truncated one; both are only logged.
save_cache(cache, old, outcome) ==
    IF outcome = "open_failed" THEN {old}
    ELSE IF outcome = "write_failed" THEN {BadFile}
    ELSE {JsonFile([Steam |-> s, Epic |-> e]) :
            s \in Lists(cache.Steam), e \in Lists(cache.Epic)}

-----------------------------------------------------------------------------
(* Upstream payloads of the polling loop *)

\* how a fetch fails before its loop: raise_for_status() (HTTPError), or
\* requests.get, resp.json() or a .get on a non-object (Exception)
FetchErrors == {"http_error", "error"}

SteamFeed ==
    {[id |-> JInt(1), discount_percent |-> JInt(75), final_price |-> JInt(499)],
     [id |-> JStr("1"), discount_percent |-> JInt(50), final_price |-> JInt(999)],
     [id |-> JInt(2), final_price |-> JInt(0)],
     [id |-> JInt(2), discount_percent |-> JInt(49), final_price |-> JInt(499)],
     [id |-> JInt(2), discount_percent |-> Null, final_price |-> JInt(0)]}

EpicFeed ==
    {[id |-> JStr("9"), originalPrice |-> JInt(1000), discountPrice |-> JInt(500),
      description |-> JStr("A great game.")],
     [id |-> JStr("9"), originalPrice |-> JInt(1000), discountPrice |-> JInt(0),
      description |-> Null],
     [id |-> JStr("9"), originalPrice |-> JInt(1000), discountPrice |-> JInt(501)],
     [id |-> JStr("9"), originalPrice |-> JInt(1000), discountPrice |-> Null]}

SeqsUpTo(S, n) == UNION {[1..k -> S] : k \in 0..n}

Responses(feed, n) ==
    {[status |-> "ok", items |-> its] : its \in SeqsUpTo(feed, n)}
    \cup {[status |-> st, items |-> <<>>] : st \in FetchErrors}

SteamResponses == Responses(SteamFeed, MaxDeals)
EpicResponses == Responses(EpicFeed, MaxDeals)

\* the description fetch_steam_details returns: '' on any failure or when
\* short_description is missing or empty, else the short_description text
SteamDescriptions == {JStr(""), JStr("A great game.")}

InitFiles ==
    {NoFile, BadFile, JsonFile([Steam |-> <<JInt(1)>>])}

IdsOf(list) == {py_str(list[i].id) : i \in 1..Len(list)}

-----------------------------------------------------------------------------
(* summarize_text and post_to_discord as the loop sees them *)

\* the external service in one call of summarize_text: not configured
\* (OPENAI_API_KEY unset or openai not importable), failing, or answering
Services == {"unconfigured", "failed", "answered"}

\* lines 66-89: the service's answer is returned when it is configured and
\* the call succeeds; otherwise text.replace(...) runs, which raises
\* AttributeError for a text that is no string
summarize_raises(text, service) ==
    /\ service # "answered"
    /\ text.t # "str"

\* lines 92-101: what post_to_discord does with the webhook
PostOutcomes ==
    IF DISCORD_WEBHOOK_URL THEN {"ok", "status", "raised"} ELSE {"skipped"}

skips_raw_id(store, deal) ==
    deal.id.t = "str" /\ deal.id.v \in POSTED_DEALS[store]

\* lines 188-190 and 203-205: deal_id = str(deal['id']); skip when cached
skips(store, deal) == py_str(deal.id) \in POSTED_DEALS[store]

marks_seen_on_success(outcome) == outcome = "ok"

\* lines 197-198 and 211-212: the add follows the call unconditionally
marks_seen(outcome) == TRUE

reset_due_no_guard(hours, el) == el >= hours

\* line 227
reset_due(hours, el) == hours > 0 /\ el >= hours

CHECK_INTERVAL_HOURS == 8

CacheResetChoices == {0, 8}

-----------------------------------------------------------------------------
(* The process: module start-up, main() and run_once() *)

Pair(store, deal) == <<store, py_str(deal.id)>>
Min(a, b) == IF a < b THEN a ELSE b

BotInit ==
    /\ pc = "boot"
    /\ POSTED_DEALS = EmptyCache
    /\ file \in InitFiles
    /\ deals = <<>>
    /\ pending = "none"
    /\ elapsed = 0
    /\ DISCORD_WEBHOOK_URL \in BOOLEAN
    /\ CACHE_RESET_HOURS \in CacheResetChoices
    /\ posted = {} /\ reposted = {}
    /\ attempted = {} /\ webhooked = {} /\ calls = 0 /\ added = {}
    /\ fetchFailed = [s \in Stores |-> FALSE]
    /\ fetched = EmptyCache
    /\ cycleStart = EmptyCache
    /\ saves = 0
    /\ saveOK = FALSE
    /\ didReset = FALSE
    /\ preReset = EmptyCache

FnOff == fin = <<>> /\ fout = <<>> /\ fpc = "off"

Init == BotInit /\ FnOff

config == <<DISCORD_WEBHOOK_URL, CACHE_RESET_HOURS>>
sinceHist == <<posted, reposted>>

\* lines 16-21, 53-55 and 222-224: the environment is read, the cache is
\* loaded and, if RESET_CACHE_ON_STARTUP is set, reset; then main() takes
\* last_reset = time.time()
Startup ==
    /\ pc = "boot"
    /\ \E RESET_CACHE_ON_STARTUP \in BOOLEAN :
          /\ IF RESET_CACHE_ON_STARTUP
             THEN \E out \in SaveOutcomes :
                     /\ file' \in save_cache(EmptyCache, file, out)
                     /\ saveOK' = (out = "ok")
                     /\ POSTED_DEALS' = EmptyCache
             ELSE /\ POSTED_DEALS' = load_cache(file)
                  /\ UNCHANGED <<file, saveOK>>
          /\ didReset' = RESET_CACHE_ON_STARTUP
    /\ elapsed' = 0
    /\ pc' = "steam_fetch"
    /\ UNCHANGED <<deals, pending, config, sinceHist, attempted, webhooked,
                   calls, added, fetchFailed, fetched, cycleStart, saves,
                   preReset, fnVars>>

\* line 187: run_once() begins; process_steam_deals() calls the fetcher
FetchSteam ==
    /\ pc = "steam_fetch"
    /\ \E resp \in SteamResponses :
          /\ deals' = fetch_steam_deals(resp)
          /\ fetchFailed' = [Steam |-> steam_fetch_failed(resp), Epic |-> FALSE]
          /\ fetched' = [Steam |-> IdsOf(fetch_steam_deals(resp)), Epic |-> {}]
    /\ cycleStart' = POSTED_DEALS
    /\ didReset' = FALSE
    /\ pc' = "steam_loop"
    /\ UNCHANGED <<POSTED_DEALS, file, pending, elapsed, config, sinceHist,
                   attempted, webhooked, calls, added, saves, saveOK,
                   preReset, fnVars>>

\* lines 189-190 / 204-205: continue
Skip(store, here) ==
    /\ pc = here
    /\ deals # <<>>
    /\ skips(store, Head(deals))
    /\ deals' = Tail(deals)
    /\ UNCHANGED <<pc, POSTED_DEALS, file, pending, elapsed, config, histVars, fnVars>>

\* the call of post_to_discord for Head(deals), with the webhook's outcome
Post(store, out, next) ==
    LET p == Pair(store, Head(deals)) IN
    /\ pending' = out
    /\ attempted' = attempted \cup {p}
    /\ webhooked' = IF out = "skipped" THEN webhooked ELSE webhooked \cup {p}
    /\ calls' = IF out = "skipped" THEN calls ELSE calls + 1
    /\ posted' = posted \cup {p}
    /\ reposted' = IF p \in posted THEN reposted \cup {p} ELSE reposted
    /\ pc' = next
    /\ UNCHANGED <<POSTED_DEALS, file, deals, elapsed, config, added,
                   fetchFailed, fetched, cycleStart, saves, saveOK,
                   didReset, preReset, fnVars>>

\* an exception leaves process_*_deals, run_once and main: the process ends
Raise ==
    /\ pc' = "crashed"
    /\ UNCHANGED <<POSTED_DEALS, file, deals, pending, elapsed, config,
                   histVars, fnVars>>

\* lines 198 / 212
Add(store, here, next) ==
    /\ pc = here
    /\ IF marks_seen(pending)
       THEN /\ POSTED_DEALS' = [POSTED_DEALS EXCEPT
                                   ![store] = @ \cup {py_str(Head(deals).id)}]
            /\ added' = added \cup {Pair(store, Head(deals))}
       ELSE UNCHANGED <<POSTED_DEALS, added>>
    /\ deals' = Tail(deals)
    /\ pending' = "none"
    /\ pc' = next
    /\ UNCHANGED <<file, elapsed, config, sinceHist, attempted, webhooked,
                   calls, fetchFailed, fetched, cycleStart, saves, saveOK,
                   didReset, preReset, fnVars>>

SteamSkip == Skip("Steam", "steam_loop")

\* lines 191-197: the description is a string, summarize_text returns
SteamPost ==
    /\ pc = "steam_loop"
    /\ deals # <<>>
    /\ ~skips("Steam", Head(deals))
    /\ \E text \in SteamDescriptions, service \in Services :
          ~summarize_raises(text, service)
    /\ \E out \in PostOutcomes : Post("Steam", out, "steam_add")

SteamAdd == Add("Steam", "steam_add", "steam_loop")

\* line 202: the Steam loop is over; process_epic_deals() calls the fetcher
FetchEpic ==
    /\ pc = "steam_loop"
    /\ deals = <<>>
    /\ \E resp \in EpicResponses :
          /\ deals' = fetch_epic_deals(resp)
          /\ fetchFailed' = [fetchFailed EXCEPT !.Epic = epic_fetch_failed(resp)]
          /\ fetched' = [fetched EXCEPT !.Epic = IdsOf(fetch_epic_deals(resp))]
    /\ pc' = "epic_loop"
    /\ UNCHANGED <<POSTED_DEALS, file, pending, elapsed, config, sinceHist,
                   attempted, webhooked, calls, added, cycleStart, saves,
                   saveOK, didReset, preReset, fnVars>>

EpicSkip == Skip("Epic", "epic_loop")

\* lines 206-211, summarize_text returning
EpicPost ==
    /\ pc = "epic_loop"
    /\ deals # <<>>
    /\ ~skips("Epic", Head(deals))
    /\ \E service \in Services :
          ~summarize_raises(Head(deals).description, service)
    /\ \E out \in PostOutcomes : Post("Epic", out, "epic_add")

\* line 206, summarize_text raising
EpicRaise ==
    /\ pc = "epic_loop"
    /\ deals # <<>>
    /\ ~skips("Epic", Head(deals))
    /\ \E service \in Services :
          summarize_raises(Head(deals).description, service)
    /\ Raise

EpicAdd == Add("Epic", "epic_add", "epic_loop")

\* line 218: the Epic loop is over; run_once() saves the cache and returns
SaveCache ==
    /\ pc = "epic_loop"
    /\ deals = <<>>
    /\ \E out \in SaveOutcomes :
          /\ file' \in save_cache(POSTED_DEALS, file, out)
          /\ saveOK' = (out = "ok")
    /\ saves' = saves + 1
    /\ preReset' = EmptyCache
    /\ pc' = "reset_check"
    /\ UNCHANGED <<POSTED_DEALS, deals, pending, elapsed, config, sinceHist,
                   attempted, webhooked, calls, added, fetchFailed, fetched,
                   cycleStart, didReset, fnVars>>

\* lines 227-230
MainReset ==
    /\ pc = "reset_check"
    /\ reset_due(CACHE_RESET_HOURS, elapsed)
    /\ \E out \in SaveOutcomes :
          /\ file' \in save_cache(EmptyCache, file, out)
          /\ saveOK' = (out = "ok")
    /\ preReset' = POSTED_DEALS
    /\ POSTED_DEALS' = EmptyCache
    /\ elapsed' = 0
    /\ didReset' = TRUE
    /\ posted' = {} /\ reposted' = {}
    /\ pc' = "sleep"
    /\ UNCHANGED <<deals, pending, config, attempted, webhooked, calls, added,
                   fetchFailed, fetched, cycleStart, saves, fnVars>>

\* line 227, condition false
MainNoReset ==
    /\ pc = "reset_check"
    /\ ~reset_due(CACHE_RESET_HOURS, elapsed)
    /\ pc' = "sleep"
    /\ UNCHANGED <<POSTED_DEALS, file, deals, pending, elapsed, config,
                   histVars, fnVars>>

\* line 232; the observations of the cycle end with it
Sleep ==
    /\ pc = "sleep"
    /\ elapsed' = Min(elapsed + CHECK_INTERVAL_HOURS, MaxElapsed)
    /\ pc' = "steam_fetch"
    /\ attempted' = {} /\ webhooked' = {} /\ calls' = 0 /\ added' = {}
    /\ fetchFailed' = [s \in Stores |-> FALSE]
    /\ fetched' = EmptyCache
    /\ cycleStart' = EmptyCache
    /\ saves' = 0
    /\ UNCHANGED <<POSTED_DEALS, file, deals, pending, config, sinceHist,
                   saveOK, didReset, preReset, fnVars>>

\* the process is stopped from outside while it sleeps, or has ended by an
\* exception, and is started again: memory is lost, the file stays
Restart ==
    /\ pc \in {"sleep", "crashed"}
    /\ pc' = "boot"
    /\ POSTED_DEALS' = EmptyCache
    /\ deals' = <<>>
    /\ pending' = "none"
    /\ elapsed' = 0
    /\ posted' = {} /\ reposted' = {}
    /\ attempted' = {} /\ webhooked' = {} /\ calls' = 0 /\ added' = {}
    /\ fetchFailed' = [s \in Stores |-> FALSE]
    /\ fetched' = EmptyCache
    /\ cycleStart' = EmptyCache
    /\ saves' = 0
    /\ didReset' = FALSE
    /\ preReset' = EmptyCache
    /\ UNCHANGED <<file, config, saveOK, fnVars>>

Next ==
    \/ Startup
    \/ FetchSteam
    \/ SteamSkip
    \/ SteamPost
    \/ SteamAdd
    \/ FetchEpic
    \/ EpicSkip
    \/ EpicPost
    \/ EpicRaise
    \/ EpicAdd
    \/ SaveCache
    \/ MainReset
    \/ MainNoReset
    \/ Sleep
    \/ Restart

Spec == Init /\ [][Next]_vars

-----------------------------------------------------------------------------
(* The fetchers and the summarizer on their own: the input is drawn from a *)
(* bounded set, one step applies the function.                             *)

BotOff ==
    /\ pc = "off"
    /\ POSTED_DEALS = EmptyCache
    /\ file = NoFile
    /\ deals = <<>>
    /\ pending = "none"
    /\ elapsed = 0
    /\ DISCORD_WEBHOOK_URL = FALSE
    /\ CACHE_RESET_HOURS = 0
    /\ posted = {} /\ reposted = {}
    /\ attempted = {} /\ webhooked = {} /\ calls = 0 /\ added = {}
    /\ fetchFailed = [s \in Stores |-> FALSE]
    /\ fetched = EmptyCache
    /\ cycleStart = EmptyCache
    /\ saves = 0
    /\ saveOK = FALSE
    /\ didReset = FALSE
    /\ preReset = EmptyCache

\* a key that is absent, or present with one of the values
Field(k, vals) == {<<>>} \cup {k :> v : v \in vals}

SteamDiscounts ==
    {JInt(0), JInt(STEAM_MIN_DISCOUNT - 1), JInt(STEAM_MIN_DISCOUNT),
     JInt(STEAM_MIN_DISCOUNT + 1), JInt(100), Null}
SteamPrices == {JInt(0), JInt(499), Null}

SteamItems ==
    {a @@ b @@ c : a \in Field("id", {JInt(42)}),
                   b \in Field("discount_percent", SteamDiscounts),
                   c \in Field("final_price", SteamPrices)}

EpicPrices == {JInt(n) : n \in (0 - 1)..MaxPrice} \cup {Null}

EpicItems ==
    {a @@ b @@ c : a \in {"id" :> JStr("9")},
                   b \in Field("originalPrice", EpicPrices),
                   c \in Field("discountPrice", EpicPrices)}

SteamInit ==
    /\ BotOff
    /\ fin \in Responses(SteamItems, MaxItems)
    /\ fout = <<>>
    /\ fpc = "steam_in"

CallFetchSteam ==
    /\ fpc = "steam_in"
    /\ fout' = fetch_steam_deals(fin)
    /\ fpc' = "steam_out"
    /\ UNCHANGED <<botVars, histVars, fin>>

SpecSteam == SteamInit /\ [][CallFetchSteam]_vars

EpicInit ==
    /\ BotOff
    /\ fin \in Responses(EpicItems, MaxItems)
    /\ fout = <<>>
    /\ fpc = "epic_in"

CallFetchEpic ==
    /\ fpc = "epic_in"
    /\ fout' = fetch_epic_deals(fin)
    /\ fpc' = "epic_out"
    /\ UNCHANGED <<botVars, histVars, fin>>

SpecEpic == EpicInit /\ [][CallFetchEpic]_vars

Chars == {"a", " ", ".", "\n"}

SummarizeInit ==
    /\ BotOff
    /\ fin \in SeqsUpTo(Chars, MaxTextLen)
    /\ fout = <<>>
    /\ fpc = "text_in"

\* summarize_text with no service configured
CallSummarize ==
    /\ fpc = "text_in"
    /\ fout' = summarize_fallback(fin)
    /\ fpc' = "text_out"
    /\ UNCHANGED <<botVars, histVars, fin>>

SpecSummarize == SummarizeInit /\ [][CallSummarize]_vars

-----------------------------------------------------------------------------
(* Claims about the fetchers and the summarizer *)

WellTyped(item) == \A k \in DOMAIN item : k # "id" => item[k].t = "int"
Has(item, k) == k \in DOMAIN item

C8_Included(item) ==
    \/ Has(item, "discount_percent") /\ item["discount_percent"].v >= 50
    \/ Has(item, "final_price") /\ item["final_price"].v = 0

\* C8: for a response whose items hold integers (or lack the key),
\* fetch_steam_deals returns exactly the items with discount_percent >= 50
\* or final_price = 0, in order: 50 is included, 49 with a nonzero price is
\* not, and a price of 0 is included whatever the discount, also a missing
\* one.
C8_SteamEligibility ==
    (/\ fpc = "steam_out"
     /\ fin.status = "ok"
     /\ \A i \in 1..Len(fin.items) : WellTyped(fin.items[i]))
    => LET sel == SelectSeq(fin.items, C8_Included) IN
       /\ Len(fout) = Len(sel)
       /\ \A i \in 1..Len(sel) : fout[i] = steam_deal(sel[i])
       /\ Len(fin.items) = 1 =>
             LET item == fin.items[1]
                 free == Has(item, "final_price") /\ item["final_price"].v = 0
                 d(n) == Has(item, "discount_percent")
                         /\ item["discount_percent"].v = n
             IN /\ free => fout = <<steam_deal(item)>>
                /\ d(50) => fout = <<steam_deal(item)>>
                /\ (d(49) /\ ~free) => fout = <<>>

C8_Witness ==
    /\ fpc = "steam_out"
    /\ fin.status = "ok"
    /\ Len(fin.items) = 2
    /\ fin.items[1] = [id |-> JInt(42), discount_percent |-> JInt(49),
                       final_price |-> JInt(499)]
    /\ fin.items[2] = [id |-> JInt(42), discount_percent |-> JInt(50),
                       final_price |-> JInt(499)]
    /\ fout = <<steam_deal(fin.items[2])>>

C9_o(el) == IF Has(el, "originalPrice") THEN el["originalPrice"].v ELSE 0
C9_d(el) == IF Has(el, "discountPrice") THEN el["discountPrice"].v ELSE C9_o(el)

\* d / o <= 1/2 as a statement about integers, o # 0
C9_HalfOrLess(d, o) == (o > 0 /\ 2 * d <= o) \/ (o < 0 /\ 2 * d >= o)

C9_Included(el) ==
    \/ C9_o(el) # 0 /\ C9_HalfOrLess(C9_d(el), C9_o(el))
    \/ C9_d(el) = 0

\* q = floor(a / b), b # 0
C9_IsFloor(q, a, b) ==
    IF b > 0 THEN q * b <= a /\ a < (q + 1) * b
    ELSE q * b >= a /\ a > (q + 1) * b

C9_PercentOK(deal, el) ==
    /\ deal.final_price = div100(C9_d(el))
    /\ IF C9_o(el) = 0 THEN deal.discount_percent = 100
       ELSE C9_IsFloor(100 - deal.discount_percent, C9_d(el) * 100, C9_o(el))
    /\ (0 <= C9_d(el) /\ C9_d(el) <= C9_o(el))
          => (50 <= deal.discount_percent /\ deal.discount_percent <= 100)

C9_Checked ==
    /\ fpc = "epic_out"
    /\ fin.status = "ok"
    /\ \A i \in 1..Len(fin.items) : WellTyped(fin.items[i])

C9_Examples ==
    /\ epic_discount_percent(500, 1000) = 50
    /\ epic_discount_percent(0, 1000) = 100
    /\ epic_discount_percent(0, 0) = 100

\* what the claim's clauses share: the included elements are those with
\* d/o <= 0.5 (o # 0) or d = 0, and each reports 100 - floor(d*100/o), or
\* 100 when o = 0, which lies in 50..100 when 0 <= d <= o
C9_Common ==
    LET sel == SelectSeq(fin.items, C9_Included) IN
    /\ Len(fout) = Len(sel)
    /\ \A i \in 1..Len(sel) : C9_PercentOK(fout[i], sel[i])
    /\ C9_Examples

\* C9 as amended: fetch_epic_deals includes an element iff
\* discountPrice/originalPrice <= 0.5 (originalPrice # 0) or discountPrice
\* = 0, never dividing by zero; an element with originalPrice = 0 is
\* included only when its discountPrice is 0 (or missing), and then with
\* discount_percent = 100; the percent is 100 - floor(d*100/o) otherwise,
\* between 50 and 100 when 0 <= d <= o.
C9_EpicEligibility ==
    C9_Checked =>
       /\ C9_Common
       /\ (Len(fin.items) = 1 /\ C9_o(fin.items[1]) = 0) =>
             IF C9_d(fin.items[1]) = 0
             THEN Len(fout) = 1 /\ fout[1].discount_percent = 100
             ELSE fout = <<>>

C9_Witness ==
    /\ C9_Checked
    /\ Len(fin.items) = 1
    /\ C9_o(fin.items[1]) = 0
    /\ C9_d(fin.items[1]) = 1
    /\ fout = <<>>

\* C9 as stated: every element with originalPrice = 0 is included, with
\* discount_percent = 100.
C9_ZeroOriginalIncluded ==
    C9_Checked =>
       /\ C9_Common
       /\ (Len(fin.items) = 1 /\ C9_o(fin.items[1]) = 0) =>
             (Len(fout) = 1 /\ fout[1].discount_percent = 100)

C10_Words ==
    {w \in SeqsUpTo({"a", " "}, 3) :
        w # <<>> /\ w[1] # " " /\ w[Len(w)] # " "}

\* C10 as stated: for a text of period-terminated sentences separated by
\* one space, the fallback returns the first two sentences separated by
\* one space.
C10_FirstTwoSentences ==
    fpc = "text_out" =>
       \A w1, w2 \in C10_Words :
          \A rest \in {<<>>} \cup {<<" ">> \o w3 \o <<".">> : w3 \in C10_Words} :
             fin = w1 \o <<".", " ">> \o w2 \o <<".">> \o rest
                => fout = w1 \o <<".", " ">> \o w2 \o <<".">>

-----------------------------------------------------------------------------
(* Claims about the polling loop *)

InCycle == {"steam_loop", "steam_add", "epic_loop", "epic_add"}
AddPcs == {"steam_add", "epic_add"}
SteamLoopOver == {"epic_loop", "epic_add", "reset_check", "sleep"}
EpicLoopOver == {"reset_check", "sleep"}
PairsOf(store, ids) == {<<store, i>> : i \in ids}

\* post_to_discord is called only for ids that were not cached when the
\* cycle began
OnlyUncachedPosted == \A p \in attempted : p[2] \notin cycleStart[p[1]]

\* C1: between two loads or resets of the cache no (store, id) is announced
\* twice, and no id already cached when the cycle began is announced: a
\* second occurrence in one list and the same deals in a later cycle are
\* skipped.
C1_AnnouncedAtMostOnce ==
    /\ reposted = {}
    /\ OnlyUncachedPosted

\* a later cycle fetched Steam id "1" again, announced since the load, and
\* passed it over
C1_Witness ==
    /\ pc = "epic_loop"
    /\ <<"Steam", "1">> \in posted
    /\ "1" \in fetched.Steam
    /\ "1" \in cycleStart.Steam
    /\ <<"Steam", "1">> \notin attempted

\* C2 as stated: no error in a cycle ends the process.
C2_NeverFatal == pc # "crashed"

\* C3 as stated: a fetch that failed at any point returns an empty list,
\* and no deal of that store is announced or cached in the cycle.
C3_FailedFetchIsEmpty ==
    \A s \in Stores :
        fetchFailed[s] =>
            /\ fetched[s] = {}
            /\ \A p \in attempted \cup added : p[1] # s

\* every id post_to_discord was called for is added, whatever the call's
\* outcome: after the add nothing attempted is missing from the cache
AddedWhateverOutcome ==
    /\ pc \notin AddPcs => attempted = added
    /\ pc = "steam_add" =>
          attempted = added \cup {Pair("Steam", Head(deals))}
    /\ pc = "epic_add" =>
          attempted = added \cup {Pair("Epic", Head(deals))}
    /\ \A p \in added : p[2] \in POSTED_DEALS[p[1]] \/ didReset

\* the step that leaves an add position puts the id into the cache, for
\* every outcome of the webhook call; and no step but a reset or a restart
\* takes an id out of the cache
AddStep ==
    /\ (pc = "steam_add" /\ pc' # "boot")
          => py_str(Head(deals).id) \in POSTED_DEALS'.Steam
    /\ (pc = "epic_add" /\ pc' # "boot")
          => py_str(Head(deals).id) \in POSTED_DEALS'.Epic
    /\ (pc' # "boot" /\ pc # "boot" /\ ~didReset')
          => \A s \in Stores : POSTED_DEALS[s] \subseteq POSTED_DEALS'[s]

\* C4 as amended: an id is added to the in-memory cache only after
\* post_to_discord has been called for it in the same cycle (which calls
\* the webhook iff DISCORD_WEBHOOK_URL is set), and it is added whether the
\* webhook call succeeded, returned a non-success status, raised or was
\* not made; once added it stays cached until a reset or restart, so it
\* is not posted again.
C4_AddedAfterAttempt ==
    /\ [](/\ added \subseteq attempted
          /\ webhooked = (IF DISCORD_WEBHOOK_URL THEN attempted ELSE {})
          /\ AddedWhateverOutcome
          /\ OnlyUncachedPosted)
    /\ [][AddStep]_vars

\* an id was cached although no webhook call was ever made for it
C4_Witness ==
    /\ ~DISCORD_WEBHOOK_URL
    /\ <<"Steam", "1">> \in added
    /\ "1" \in POSTED_DEALS.Steam
    /\ webhooked = {}
    /\ pc = "steam_loop"

\* C4 as stated: a webhook call has been made for every id added.
C4_AddedAfterWebhookCall ==
    /\ added \subseteq webhooked
    /\ AddedWhateverOutcome

\* what C5 says of a cycle in which run_once has saved
C5_CycleResult ==
    /\ saves = 1
    /\ saveOK => load_cache(file) = POSTED_DEALS
    /\ \A s \in Stores : POSTED_DEALS[s] = cycleStart[s] \cup fetched[s]
    /\ DISCORD_WEBHOOK_URL => calls = Cardinality(added)

\* C5 as stated: every cycle, however run_once ends, has persisted the
\* cache exactly once after both stores; the persisted cache then equals
\* the in-memory one (when the save succeeds), which is the cache at the
\* start plus the ids fetched, and the webhook was called once per id added.
C5_PersistedOncePerCycle ==
    pc \in {"reset_check", "crashed"} => C5_CycleResult

\* the same for the cycles in which run_once returns
C5_WhenRunOnceReturns ==
    /\ pc = "reset_check" => C5_CycleResult
    /\ pc \in InCycle => saves = 0

EmptyJson == JsonFile([Steam |-> <<>>, Epic |-> <<>>])

\* a reset has just been made: by main() (the process sleeps), or at
\* start-up (the first fetch is next)
JustReset == didReset /\ pc \in {"sleep", "steam_fetch"}

\* the cycle after a reset starts from an empty cache, and every cycle
\* announces each id it fetched that was not cached when it began
AnnouncedAgain ==
    /\ (pc \in InCycle /\ preReset # EmptyCache) => cycleStart = EmptyCache
    /\ pc \in SteamLoopOver =>
          PairsOf("Steam", fetched.Steam \ cycleStart.Steam) \subseteq attempted
    /\ pc \in EpicLoopOver =>
          PairsOf("Epic", fetched.Epic \ cycleStart.Epic) \subseteq attempted

\* main() resets exactly when CACHE_RESET_HOURS > 0 and that many hours
\* have passed since the last reset, and then takes a new last_reset
ResetStep ==
    (pc = "reset_check" /\ pc' = "sleep") =>
        /\ didReset' <=> (CACHE_RESET_HOURS > 0 /\ elapsed >= CACHE_RESET_HOURS)
        /\ didReset' => elapsed' = 0

RestartStep ==
    /\ (pc = "sleep" /\ pc' = "boot") => file' = file
    /\ (pc = "boot" /\ pc' = "steam_fetch" /\ ~didReset')
          => (POSTED_DEALS' = load_cache(file) /\ file' = file)

\* C7 as amended: when save_cache succeeds in writing the file, load_cache
\* returns the two sets that were saved, whatever the order of the lists
\* in the file (a failed save is only logged, and load_cache then returns
\* the older cache or two empty sets); so after a restart without reset
\* the ids persisted by the last successful save are cached and not
\* announced again.
C7_SaveThenLoad ==
    /\ []((pc \in {"reset_check", "sleep"} /\ saveOK)
             => load_cache(file) = POSTED_DEALS)
    /\ [](saveOK => file.kind = "json")
    /\ [][RestartStep]_vars
    /\ []OnlyUncachedPosted

\* after a restart the cache holds both Steam ids, read from a file that
\* lists them in the order "2", "1"; "1" was fetched and passed over
C7_Witness ==
    /\ pc = "epic_loop"
    /\ posted = {}
    /\ file.kind = "json"
    /\ get(file.data, "Steam", <<>>) = <<JStr("2"), JStr("1")>>
    /\ POSTED_DEALS.Steam = {"1", "2"}
    /\ "1" \in fetched.Steam
    /\ attempted = {}

\* C7 as stated: after save_cache, load_cache returns the sets saved.
C7_SaveThenLoadAlways ==
    pc \in {"reset_check", "sleep"} => load_cache(file) = POSTED_DEALS

====
